---- MODULE Spec2Model ----
(***************************************************************************)
(* Model of the real-time connection managers of plus_planner_core:        *)
(*   - src/wait_list/manager.py  (wait-list ConnectionManager)             *)
(*   - src/scheduler/manager.py  (scheduler ConnectionManager)             *)
(* Each method of a manager is one operator over a record S holding the    *)
(* manager's and the clients' fields; an action applies a method to the    *)
(* current state and commits the result.  The model follows Python's       *)
(* semantics of the source: a coroutine function called without `await`    *)
(* does not run and yields a (truthy) coroutine object, `await` of a value *)
(* that is not awaitable raises TypeError, a keyword a signature does not  *)
(* declare raises TypeError, and an exception propagates until an `except` *)
(* clause names its class.                                                 *)
(*                                                                         *)
(* The methods are checked from every manager state of the declared types  *)
(* that Init enumerates (registered clients, authenticated or not, a wait  *)
(* list with entries): the handlers' behaviour is a contract over those    *)
(* states, whatever wiring produced them.                                  *)
(***************************************************************************)
EXTENDS Integers, Sequences, FiniteSets, TLC

\* ------------------------------------------------------------------ bounds
\* messages the listeners put on the queue in one run (asyncio.Queue() itself
\* is unbounded)
MaxQueue == 2
\* primary keys the model's scheduler table hands out before a create fails
MaxEvents == 2

\* --------------------------------------------------------------- universes
Clients == {1, 2}
Clinics == {1, 2}
\* clinics that have a row in the database
ExistingClinics == {1, 2}
\* clinic ids for which no row exists
MissingClinics == {9}
Patients == {1, 2}

None == "None"
\* what `client.token = message` stores: the Message object (truthy)
MessageObject == "Message"
\* bearer tokens a client may present; the validation service accepts some
Tokens == {"tokA", "bad"}
AcceptedTokens == {"tokA"}

\* SchedulerStatus members used by the wait list
WAITING == "WAITING"
DONE == "DONE"
CANCELED == "CANCELED"

Range(s) == {s[i] : i \in 1..Len(s)}

\* list.remove(x): drops the first occurrence of x
RECURSIVE ListRemove(_, _)
ListRemove(s, x) ==
    IF s = <<>> THEN <<>>
    ELSE IF Head(s) = x THEN Tail(s)
    ELSE <<Head(s)>> \o ListRemove(Tail(s), x)

\* ---------------------------------------------------------------- schemas
\* Every `data` value has the same fields; `schema` names the pydantic class.
NoData ==
    [schema |-> "None", token |-> "", uuid |-> 0, clinic_id |-> 0, error |-> "",
     patient_id |-> 0, status |-> "", created_at |-> 0, patients |-> <<>>,
     event_id |-> 0, date |-> 0, description |-> None, is_return |-> None,
     is_off |-> None, events |-> <<>>]

ConnectionSchema(t) == [NoData EXCEPT !.schema = "ConnectionSchema", !.token = t]
CreateUUIDSchema(u) == [NoData EXCEPT !.schema = "CreateUUIDSchema", !.uuid = u]
ErrorResponseSchema(e) == [NoData EXCEPT !.schema = "ErrorResponseSchema", !.error = e]
NewPatientInWaitSchema(p) ==
    [NoData EXCEPT !.schema = "NewPatientInWaitSchema", !.patient_id = p]
UpdatePatientInWaitSchema(p, st) ==
    [NoData EXCEPT !.schema = "UpdatePatientInWaitSchema", !.patient_id = p, !.status = st]
PatientWaitListSchema(p, st, at) ==
    [NoData EXCEPT !.schema = "PatientWaitListSchema", !.patient_id = p,
                   !.status = st, !.created_at = at]
PatientList(l) == [NoData EXCEPT !.schema = "List[PatientWaitListSchema]", !.patients = l]

Message(type, clinic, data) == [message_type |-> type, clinic_id |-> clinic, data |-> data]
NoMessage == Message("-", 0, NoData)

\* WaitListMessageType
MessageType ==
    {"NEW_PATIENT_IN_WAIT", "UPDATE_PATIENT_IN_WAIT", "NEXT_PATIENT_IN_WAIT",
     "LIST_PATIENTS_IN_WAIT", "CONNECTION", "CREATE_UUID", "INVALID", "ERROR",
     "DISCONNECT"}

\* ------------------------------------------------------------------ state
VARIABLES
    manager,            \* which ConnectionManager the run is of
    client_connections, \* ConnectionManager.client_connections (a list)
    token,              \* client.token
    user_id,            \* client.user_id (0: never assigned)
    clinic_id,          \* client.clinic_id
    uuid,               \* client.uuid
    state,              \* client.state, the attribute disconnect compares with "open"
    socket,             \* the socket: "connecting" | "accepted" | "closed"
    wait_list,          \* ConnectionManager.wait_list
    events,             \* SchedulerModel: its rows and the next primary key
    now,                \* the clock datetime.now reads
    queue,              \* ConnectionManager.queue
    puts,               \* how many items have been put on the queue
    app,                \* the application: "created" | "running" (lifespan entered)
    threads,            \* the threads start_main_thread has started
    log,                \* effects of the last operation, in program order
    last,               \* the last operation
    tokens,             \* TokenModel: the token record of each user
    call,               \* a call outside the message handlers and its outcome
    instance,           \* ConnectionManager._instance (0: None)
    objects             \* how many ConnectionManager objects have been made

vars == <<manager, client_connections, token, user_id, clinic_id, uuid, state, socket,
          wait_list, events, now, queue, puts, app, threads, log, last, tokens, call,
          instance, objects>>

\* the state outside the connections, the queue and the handlers
others == <<tokens, call, instance, objects>>

\* The manager and client fields a method reads and writes.
Snapshot ==
    [cc |-> client_connections, token |-> token, user_id |-> user_id,
     clinic_id |-> clinic_id, uuid |-> uuid, state |-> state, socket |-> socket,
     wait_list |-> wait_list, events |-> events, now |-> now,
     log |-> <<>>, exc |-> "none"]

Commit(S) ==
    /\ client_connections' = S.cc
    /\ token' = S.token
    /\ user_id' = S.user_id
    /\ clinic_id' = S.clinic_id
    /\ uuid' = S.uuid
    /\ state' = S.state
    /\ socket' = S.socket
    /\ wait_list' = S.wait_list
    /\ events' = S.events
    /\ now' = S.now
    /\ log' = S.log

\* one effect of an operation
Effect(ev, c, m) == [ev |-> ev, client |-> c, msg |-> m]
Emit(S, ev, c, m) == [S EXCEPT !.log = Append(@, Effect(ev, c, m))]
Raise(S, e) == [S EXCEPT !.exc = e]

\* ------------------------------------------------ wait_list/client.py
\* ClientWebSocket.send
send(S, c, m) == Emit(S, "send", c, m)

\* `self.clinic_id` of a socket that accept never initialised: the class only
\* annotates the attribute, reading it raises AttributeError
send_invalid_message(S, c) ==
    IF S.clinic_id[c] = 0 THEN Raise(S, "AttributeError")
    ELSE send(S, c, Message("INVALID", S.clinic_id[c], NoData))

send_error_message(S, c, error) ==
    IF S.clinic_id[c] = 0 THEN Raise(S, "AttributeError")
    ELSE send(S, c, Message("ERROR", S.clinic_id[c], ErrorResponseSchema(error)))

send_new_uuid(S, c, uuid_code) ==
    IF S.clinic_id[c] = 0 THEN Raise(S, "AttributeError")
    ELSE send(S, c, Message("CREATE_UUID", S.clinic_id[c], CreateUUIDSchema(uuid_code)))

\* WebSocket.close
close(S, c) == Emit([S EXCEPT !.socket[c] = "closed"], "close", c, NoMessage)

\* the parameters ClientWebSocket.accept declares
AcceptParameters == {"subprotocol", "headers", "client_id", "uuid_code"}

\* ClientWebSocket.accept called with the keyword arguments kw
accept(S, c, kw) ==
    IF ~(DOMAIN kw \subseteq AcceptParameters) THEN Raise(S, "TypeError")
    ELSE LET S1 == Emit([S EXCEPT !.socket[c] = "accepted"], "accept", c, NoMessage)
         IN  IF "client_id" \notin DOMAIN kw \/ "uuid_code" \notin DOMAIN kw
             THEN send_error_message(S1, c, "Client ID ou UUID nao informado")
             ELSE [S1 EXCEPT !.clinic_id[c] = kw.client_id, !.uuid[c] = kw.uuid_code]

\* ------------------------------------------------------- src/client.py
\* APIClient.check_is_token_is_valid: the answer of the validation service
check_is_token_is_valid(t) == t \in AcceptedTokens

\* ------------------------------------------------ wait_list/manager.py
\* time.sleep(0.1)
sleep(S) == Emit(S, "sleep", 0, NoMessage)

\* Mutation of disconnect: the list is emptied.
disconnect_everyone(S, client) ==
    LET S1 == IF client \in Range(S.cc)
              THEN Emit([S EXCEPT !.cc = <<>>], "remove", client, NoMessage)
              ELSE S
    IN  IF S1.state[client] = "open" THEN close(S1, client) ELSE S1

\* ConnectionManager.disconnect
disconnect(S, client) ==
    LET S1 == IF client \in Range(S.cc)
              THEN Emit([S EXCEPT !.cc = ListRemove(@, client)], "remove", client, NoMessage)
              ELSE S
    IN  IF S1.state[client] = "open" THEN close(S1, client) ELSE S1

\* the for loop of broadcast_clinic_messages, over client_connections[i..]
RECURSIVE broadcast_from(_, _, _, _)
broadcast_from(S, i, clinic, message) ==
    IF i > Len(S.cc) THEN S
    ELSE broadcast_from(
            IF S.clinic_id[S.cc[i]] = clinic THEN send(S, S.cc[i], message) ELSE S,
            i + 1, clinic, message)

\* Mutation of broadcast_clinic_messages: it returns at the first connection of
\* the clinic, as get_connection_by_clinic_id does.
broadcast_first_connection(S, clinic, message) ==
    LET found == {i \in DOMAIN S.cc : S.clinic_id[S.cc[i]] = clinic}
    IN  IF found = {} THEN S
        ELSE send(S, S.cc[CHOOSE i \in found : \A j \in found : i <= j], message)

\* ConnectionManager.broadcast_clinic_messages
broadcast_clinic_messages(S, clinic, message) == broadcast_from(S, 1, clinic, message)

\* a try block's `except (classes)` clause answering with an error message
Except(S, classes, after(_)) ==
    IF S.exc \in classes THEN after([S EXCEPT !.exc = "none"]) ELSE S

\* What the environment does during one operation: the validation service
\* answers or the HTTP request fails; the database answers or fails; and
\* SchedulerStatus, which the wait list imports from plus_db_agent.enums, has a
\* member WAITING or, like the SchedulerStatus of base/enums.py, has none.
Envs == [service : {"ok", "down"}, db : {"ok", "OperationalError"},
         status : {"WAITING", "missing"}]
EnvOk == [service |-> "ok", db |-> "ok", status |-> "WAITING"]

\* ConnectionManager.__process_enqueue_wait_list
process_enqueue_wait_list(S, message, client, env) ==
    LET body ==
            IF message.data.schema # "NewPatientInWaitSchema"
            THEN send_invalid_message(S, client)
            ELSE IF env.status = "missing"
            THEN Raise(S, "AttributeError")  \* SchedulerStatus.WAITING
            ELSE \* the entry is appended, then `await` of append's None raises
                 Raise([S EXCEPT !.wait_list = Append(@,
                            PatientWaitListSchema(message.data.patient_id, WAITING, S.now)),
                        !.now = @ + 1], "TypeError")
        handler(X) == send_error_message(X, client, "Erro ao adicionar paciente na fila")
    IN  Except(body, {"OperationalError", "AttributeError"}, handler)

\* the list comprehension of __process_update_wait_list
RECURSIVE WithoutPatient(_, _)
WithoutPatient(l, p) ==
    IF l = <<>> THEN <<>>
    ELSE IF Head(l).patient_id # p THEN <<Head(l)>> \o WithoutPatient(Tail(l), p)
    ELSE WithoutPatient(Tail(l), p)

\* Mutation of __process_update_wait_list: the entries of the patient are
\* removed whatever the status.
process_update_removing_always(S, message, client) ==
    LET body ==
            IF message.data.schema # "UpdatePatientInWaitSchema"
            THEN send_invalid_message(S, client)
            ELSE send([S EXCEPT !.wait_list = WithoutPatient(@, message.data.patient_id)],
                      client, Message("UPDATE_PATIENT_IN_WAIT", message.clinic_id, NoData))
        handler(X) == send_error_message(X, client, "Erro ao atualizar paciente na fila")
    IN  Except(body, {"OperationalError", "AttributeError"}, handler)

\* ConnectionManager.__process_update_wait_list
process_update_wait_list(S, message, client) ==
    LET body ==
            IF message.data.schema # "UpdatePatientInWaitSchema"
            THEN send_invalid_message(S, client)
            ELSE LET S1 == IF message.data.status \in {CANCELED, DONE}
                           THEN [S EXCEPT !.wait_list =
                                     WithoutPatient(@, message.data.patient_id)]
                           ELSE S
                 IN  send(S1, client,
                          Message("UPDATE_PATIENT_IN_WAIT", message.clinic_id, NoData))
        handler(X) == send_error_message(X, client, "Erro ao atualizar paciente na fila")
    IN  Except(body, {"OperationalError", "AttributeError"}, handler)

\* Mutation of __process_call_next_patient: `pop()` takes the entry at the tail.
process_call_last_patient(S, message, client) ==
    LET body ==
            IF S.wait_list = <<>>
            THEN send_error_message(S, client, "Fila vazia")
            ELSE LET next_patient == S.wait_list[Len(S.wait_list)]
                 IN  send([S EXCEPT !.wait_list = SubSeq(@, 1, Len(@) - 1)], client,
                          Message("NEXT_PATIENT_IN_WAIT", message.clinic_id,
                                  PatientWaitListSchema(next_patient.patient_id, DONE,
                                                        next_patient.created_at)))
        handler(X) == send_error_message(X, client, "Erro ao chamar proximo")
    IN  Except(body, {"OperationalError", "AttributeError"}, handler)

\* Mutation of __process_call_next_patient: the client that asks on an empty
\* list is dropped after the error message.
process_call_next_patient_dropping(S, message, client) ==
    LET body ==
            IF S.wait_list = <<>>
            THEN disconnect(send_error_message(S, client, "Fila vazia"), client)
            ELSE LET next_patient == Head(S.wait_list)
                 IN  send([S EXCEPT !.wait_list = Tail(@)], client,
                          Message("NEXT_PATIENT_IN_WAIT", message.clinic_id,
                                  PatientWaitListSchema(next_patient.patient_id, DONE,
                                                        next_patient.created_at)))
        handler(X) == send_error_message(X, client, "Erro ao chamar proximo")
    IN  Except(body, {"OperationalError", "AttributeError"}, handler)

\* ConnectionManager.__process_call_next_patient
process_call_next_patient(S, message, client) ==
    LET body ==
            IF S.wait_list = <<>>
            THEN send_error_message(S, client, "Fila vazia")
            ELSE LET next_patient == Head(S.wait_list)
                 IN  send([S EXCEPT !.wait_list = Tail(@)], client,
                          Message("NEXT_PATIENT_IN_WAIT", message.clinic_id,
                                  PatientWaitListSchema(next_patient.patient_id, DONE,
                                                        next_patient.created_at)))
        handler(X) == send_error_message(X, client, "Erro ao chamar proximo")
    IN  Except(body, {"OperationalError", "AttributeError"}, handler)

\* ConnectionManager.__process_wait_list
process_wait_list(S, client) ==
    LET body == send(S, client,
                     Message("NEXT_PATIENT_IN_WAIT", S.clinic_id[client],
                             PatientList(S.wait_list)))
        handler(X) == send_error_message(X, client, "Erro ao buscar lista de espera")
    IN  Except(body, {"OperationalError", "AttributeError"}, handler)

\* Mutation of __process_connection: `client.token = message` is moved above
\* the validation of the token.
process_connection_storing_first(S, message, client, env) ==
    LET S0 == [S EXCEPT !.token[client] = MessageObject]
        body ==
            IF message.data.schema # "ConnectionSchema"
            THEN send_invalid_message(S, client)
            ELSE IF env.service = "down"
            THEN Raise(S0, "ConnectionError")
            ELSE IF ~check_is_token_is_valid(message.data.token)
            THEN disconnect(sleep(send_error_message(S0, client, "Token invalido")), client)
            ELSE Raise(S0, "TypeError")
        handler(X) ==
            disconnect(sleep(send_error_message(X, client, "Erro ao validar conexao")), client)
    IN  Except(body, {"OperationalError", "AttributeError"}, handler)

\* ConnectionManager.__process_connection
process_connection(S, message, client, env) ==
    LET body ==
            IF message.data.schema # "ConnectionSchema"
            THEN send_invalid_message(S, client)
            ELSE IF env.service = "down"
            THEN Raise(S, "ConnectionError")  \* requests.get raises
            ELSE IF ~check_is_token_is_valid(message.data.token)
            THEN disconnect(sleep(send_error_message(S, client, "Token invalido")), client)
            ELSE \* get_user_by_token(client.token) is not awaited: user_dict is a
                 \* coroutine object; client.token = message; user_dict["id"] raises
                 Raise([S EXCEPT !.token[client] = MessageObject], "TypeError")
        handler(X) ==
            disconnect(sleep(send_error_message(X, client, "Erro ao validar conexao")), client)
    IN  Except(body, {"OperationalError", "AttributeError"}, handler)

\* truth value of client.token
Truthy(t) == t # None /\ t # ""

\* Mutation of __process_message: the branches do not test client.token.
process_message_ungated(S, message, client, env) ==
    LET type == message.message_type
        body ==
            IF type = "CONNECTION" THEN process_connection(S, message, client, env)
            ELSE IF type = "NEW_PATIENT_IN_WAIT"
            THEN process_enqueue_wait_list(S, message, client, env)
            ELSE IF type = "UPDATE_PATIENT_IN_WAIT"
            THEN process_update_wait_list(S, message, client)
            ELSE IF type = "NEXT_PATIENT_IN_WAIT"
            THEN process_call_next_patient(S, message, client)
            ELSE IF type = "LIST_PATIENTS_IN_WAIT"
            THEN process_wait_list(S, client)
            ELSE send_invalid_message(S, client)
        handler(X) == send_error_message(X, client, "Erro ao processar a mensagem")
    IN  Except(body, {"AttributeError", "OperationalError"}, handler)

\* Mutation of __process_message: a message of no request type drops the
\* connection, as a message of a client without token does.
process_message_dropping_others(S, message, client, env) ==
    LET type == message.message_type
        dropped == disconnect(sleep(send_error_message(S, client, "Token invalido")), client)
        body ==
            IF type = "CONNECTION" THEN process_connection(S, message, client, env)
            ELSE IF Truthy(S.token[client]) /\ type = "NEW_PATIENT_IN_WAIT"
            THEN process_enqueue_wait_list(S, message, client, env)
            ELSE IF Truthy(S.token[client]) /\ type = "UPDATE_PATIENT_IN_WAIT"
            THEN process_update_wait_list(S, message, client)
            ELSE IF Truthy(S.token[client]) /\ type = "NEXT_PATIENT_IN_WAIT"
            THEN process_call_next_patient(S, message, client)
            ELSE IF Truthy(S.token[client]) /\ type = "LIST_PATIENTS_IN_WAIT"
            THEN process_wait_list(S, client)
            ELSE dropped
        handler(X) == send_error_message(X, client, "Erro ao processar a mensagem")
    IN  Except(body, {"AttributeError", "OperationalError"}, handler)

\* ConnectionManager.__process_message
process_message(S, message, client, env) ==
    LET type == message.message_type
        body ==
            IF type = "CONNECTION" THEN process_connection(S, message, client, env)
            ELSE IF Truthy(S.token[client]) /\ type = "NEW_PATIENT_IN_WAIT"
            THEN process_enqueue_wait_list(S, message, client, env)
            ELSE IF Truthy(S.token[client]) /\ type = "UPDATE_PATIENT_IN_WAIT"
            THEN process_update_wait_list(S, message, client)
            ELSE IF Truthy(S.token[client]) /\ type = "NEXT_PATIENT_IN_WAIT"
            THEN process_call_next_patient(S, message, client)
            ELSE IF Truthy(S.token[client]) /\ type = "LIST_PATIENTS_IN_WAIT"
            THEN process_wait_list(S, client)
            ELSE IF ~Truthy(S.token[client])
            THEN disconnect(sleep(send_error_message(S, client, "Token invalido")), client)
            ELSE send_invalid_message(S, client)
        handler(X) == send_error_message(X, client, "Erro ao processar a mensagem")
    IN  Except(body, {"AttributeError", "OperationalError"}, handler)

\* sequencing: the next statement runs unless an exception is propagating
Then(S, next(_)) == IF S.exc # "none" THEN S ELSE next(S)

\* Mutation of connect: accept is called with the keywords it declares, so the
\* socket is accepted, greeted and appended on the server's thread.
connect_registering(S, websocket, clinic, new_uuid) ==
    LET registered(X) == [X EXCEPT !.cc = Append(@, websocket)]
        greeted(X) == Then(send_new_uuid(X, websocket, new_uuid), registered)
    IN  Then(accept(S, websocket, [client_id |-> clinic, uuid_code |-> new_uuid]), greeted)

\* ConnectionManager.connect.  clinic_repositoty.get_by_id is a coroutine
\* function called without await, so the condition tests a coroutine object,
\* which is truthy whether or not the clinic exists.
connect(S, websocket, clinic, new_uuid) ==
    LET found == TRUE
        registered(X) == [X EXCEPT !.cc = Append(@, websocket)]
        greeted(X) == Then(send_new_uuid(X, websocket, new_uuid), registered)
    IN  IF found
        THEN Then(accept(S, websocket, [clinic_id |-> clinic, new_uuid |-> new_uuid]),
                  greeted)
        ELSE Then(Then(send_error_message(S, websocket,
                                          "Token invalido ou clinica inexistente"),
                       sleep),
                  LAMBDA X : close(X, websocket))

\* Mutation of start_main_thread: two threads are started.
start_two_threads(ths) ==
    LET th == [pc |-> "loop", client |-> 0, message |-> NoMessage, seq |-> 0,
               exc |-> "none"]
    IN  Append(Append(ths, th), th)

\* ConnectionManager.start_main_thread: one more thread running __process_queue
start_main_thread(ths) ==
    Append(ths, [pc |-> "loop", client |-> 0, message |-> NoMessage, seq |-> 0,
                 exc |-> "none"])

\* -------------------------------------------------- scheduler schemas
\* The schema classes scheduler/manager.py imports (the module defining them
\* is not part of the sources; their fields are the ones the manager reads).
SchedulerConnectionSchema(u, t, k) ==
    [NoData EXCEPT !.schema = "ConnectionSchema", !.uuid = u, !.token = t, !.clinic_id = k]
GetFullMonthCalendarSchema(d) ==
    [NoData EXCEPT !.schema = "GetFullMonthCalendarSchema", !.date = d]
GetFullWeekCalendarSchema(d) ==
    [NoData EXCEPT !.schema = "GetFullWeekCalendarSchema", !.date = d]
GetDayCalendarSchema(d) == [NoData EXCEPT !.schema = "GetDayCalendarSchema", !.date = d]
AddEventSchema(d, desc, ret, off) ==
    [NoData EXCEPT !.schema = "AddEventSchema", !.date = d, !.description = desc,
                   !.is_return = ret, !.is_off = off]
EditEventSchema(id, d, desc, ret, off) ==
    [NoData EXCEPT !.schema = "EditEventSchema", !.event_id = id, !.date = d,
                   !.description = desc, !.is_return = ret, !.is_off = off]
RemoveEventSchema(id) == [NoData EXCEPT !.schema = "RemoveEventSchema", !.event_id = id]
EventSchema(e) ==
    [NoData EXCEPT !.schema = "EventSchema", !.event_id = e.id, !.date = e.date,
                   !.description = e.description, !.is_return = e.is_return,
                   !.is_off = e.is_off]
ReponseEventsCalendarSchema(es) ==
    [NoData EXCEPT !.schema = "ReponseEventsCalendarSchema", !.events = es]

\* SchedulerMessageType
SchedulerMessageType ==
    {"GET_FULL_MONTH_CALENDAR", "GET_FULL_WEEK_CALENDAR", "GET_DAY_CALENDAR",
     "ADD_EVENT", "EDIT_EVENT", "REMOVE_EVENT", "CONNECTION", "CREATE_UUID",
     "INVALID", "ERROR", "DISCONNECT"}

\* BaseConnectionManager.broadcast_clinic_messages and .disconnect, which the
\* scheduler's manager inherits (plus_db_agent.queue is not among the
\* sources): the fan-out to every connection of the clinic and the drop of a
\* connection that the specification describes.  The scheduler's sockets
\* likewise inherit send, send_error_message and send_invalid_message, taken
\* to be those of wait_list/client.py.
base_broadcast_clinic_messages(S, clinic, message) == broadcast_from(S, 1, clinic, message)
base_disconnect(S, client) == disconnect(S, client)

\* a row of SchedulerModel
Event(id, k, u, d, desc, ret, off) ==
    [id |-> id, clinic_id |-> k, user |-> u, date |-> d, description |-> desc,
     is_return |-> ret, is_off |-> off]

\* the database raises: tortoise's OperationalError (DoesNotExist is one)
DbRaise(S) == Raise(Emit(S, "db.error", 0, NoMessage), "OperationalError")

\* a database call: it is recorded, and raises when the database fails
Db(S, op, env) ==
    LET S1 == Emit(S, op, 0, NoMessage)
    IN  IF env.db = "ok" THEN S1 ELSE DbRaise(S1)

RECURSIVE SelectEvents(_, _, _)
\* SchedulerModel.filter(clinic_id=k, <date condition>).all()
SelectEvents(rows, k, dates) ==
    IF rows = <<>> THEN <<>>
    ELSE (IF Head(rows).clinic_id = k /\ Head(rows).date \in dates
          THEN <<EventSchema(Head(rows))>> ELSE <<>>)
         \o SelectEvents(Tail(rows), k, dates)

\* the dates of the model's calendar: one month, one week, two days
Dates == {1, 2}

\* scheduler ClientWebSocket.send_events_calendar
send_events_calendar(S, c, scheduler_events) ==
    send(S, c, Message("GET_FULL_MONTH_CALENDAR", S.clinic_id[c],
                       ReponseEventsCalendarSchema(scheduler_events)))

\* ConnectionManager.__process_full_month_calendar
process_full_month_calendar(S, message, client, env) ==
    IF message.data.schema # "GetFullMonthCalendarSchema"
    THEN send_invalid_message(S, client)
    ELSE Then(Db(S, "db.filter", env),
              LAMBDA X : send_events_calendar(X, client,
                             SelectEvents(X.events.rows, message.clinic_id, Dates)))

\* ConnectionManager.__process_full_week_calendar
process_full_week_calendar(S, message, client, env) ==
    IF message.data.schema # "GetFullWeekCalendarSchema"
    THEN send_invalid_message(S, client)
    ELSE Then(Db(S, "db.filter", env),
              LAMBDA X : send_events_calendar(X, client,
                             SelectEvents(X.events.rows, message.clinic_id, Dates)))

\* ConnectionManager.__process_day_calendar
process_day_calendar(S, message, client, env) ==
    IF message.data.schema # "GetDayCalendarSchema"
    THEN send_invalid_message(S, client)
    ELSE Then(Db(S, "db.filter", env),
              LAMBDA X : send_events_calendar(X, client,
                             SelectEvents(X.events.rows, message.clinic_id,
                                          {message.data.date})))

\* SchedulerModel.create: a new row with the next primary key
Create(S, row, env) ==
    LET S1 == Db(S, "db.create", env)
    IN  IF S1.exc # "none" THEN S1
        ELSE IF S1.events.next_id > MaxEvents THEN DbRaise(S1)
        ELSE [S1 EXCEPT !.events.rows = Append(@, [row EXCEPT !.id = S1.events.next_id]),
                        !.events.next_id = @ + 1]

\* Mutation of __process_add_event: the new event is sent to the sender alone,
\* as the wait list's handlers answer.
process_add_event_answering_sender(S, message, client, env) ==
    LET d == message.data
        body ==
            IF d.schema # "AddEventSchema" THEN send_invalid_message(S, client)
            ELSE Then(Create(S, Event(0, message.clinic_id, S.user_id[client], d.date,
                                      d.description, d.is_return, d.is_off), env),
                      LAMBDA X :
                         send(X, client,
                              Message("ADD_EVENT", message.clinic_id,
                                      EventSchema(X.events.rows[Len(X.events.rows)]))))
        handler(X) == send_error_message(X, client, "Erro ao adicionar o evento")
    IN  Except(body, {"OperationalError", "AttributeError"}, handler)

\* ConnectionManager.__process_add_event
process_add_event(S, message, client, env) ==
    LET d == message.data
        body ==
            IF d.schema # "AddEventSchema" THEN send_invalid_message(S, client)
            ELSE Then(Create(S, Event(0, message.clinic_id, S.user_id[client], d.date,
                                      d.description, d.is_return, d.is_off), env),
                      LAMBDA X :
                         base_broadcast_clinic_messages(X, X.clinic_id[client],
                            Message("ADD_EVENT", message.clinic_id,
                                    EventSchema(X.events.rows[Len(X.events.rows)]))))
        handler(X) == send_error_message(X, client, "Erro ao adicionar o evento")
    IN  Except(body, {"OperationalError", "AttributeError"}, handler)

\* index of the row with primary key id, 0 when there is none
RowOf(rows, id) ==
    IF \E i \in DOMAIN rows : rows[i].id = id
    THEN CHOOSE i \in DOMAIN rows : rows[i].id = id
    ELSE 0

\* SchedulerModel.get(id=...): DoesNotExist is an OperationalError
Get(S, id, env) ==
    LET S1 == Db(S, "db.get", env)
    IN  IF S1.exc # "none" THEN S1
        ELSE IF RowOf(S1.events.rows, id) = 0 THEN DbRaise(S1)
        ELSE S1

\* truth value of a field of model_dump()
TruthyField(v) == v \notin {None, "", "False"}

\* `for key, value in model_dump().items(): if value and hasattr(event, key)`
Edited(event, d) ==
    [event EXCEPT
        !.date = IF d.date # 0 THEN d.date ELSE @,
        !.description = IF TruthyField(d.description) THEN d.description ELSE @,
        !.is_return = IF TruthyField(d.is_return) THEN d.is_return ELSE @,
        !.is_off = IF TruthyField(d.is_off) THEN d.is_off ELSE @]

\* ConnectionManager.__process_edit_event
process_edit_event(S, message, client, env) ==
    LET d == message.data
        body ==
            IF d.schema # "EditEventSchema" THEN send_invalid_message(S, client)
            ELSE Then(Get(S, d.event_id, env),
                      LAMBDA X :
                         LET i == RowOf(X.events.rows, d.event_id)
                             event == Edited(X.events.rows[i], d)
                             X1 == Emit([X EXCEPT !.events.rows[i] = event],
                                        "db.save", 0, NoMessage)
                         IN  base_broadcast_clinic_messages(X1, X1.clinic_id[client],
                                Message("EDIT_EVENT", message.clinic_id, EventSchema(event))))
        handler(X) == send_error_message(X, client, "Erro ao editar o evento")
    IN  Except(body, {"OperationalError"}, handler)

\* the rows without row i
DeleteRow(rows, i) == SubSeq(rows, 1, i - 1) \o SubSeq(rows, i + 1, Len(rows))

\* ConnectionManager.__process_remove_event
process_remove_event(S, message, client, env) ==
    LET d == message.data
        body ==
            IF d.schema # "RemoveEventSchema" THEN send_invalid_message(S, client)
            ELSE Then(Get(S, d.event_id, env),
                      LAMBDA X :
                         LET i == RowOf(X.events.rows, d.event_id)
                             X1 == Emit([X EXCEPT !.events.rows = DeleteRow(@, i)],
                                        "db.delete", 0, NoMessage)
                         IN  base_broadcast_clinic_messages(X1, X1.clinic_id[client],
                                Message("REMOVE_EVENT", message.clinic_id, d)))
        handler(X) == send_error_message(X, client, "Erro ao remover o evento")
    IN  Except(body, {"OperationalError"}, handler)

\* ------------------------------------------------------------ backends.py
\* a permission: the fields of PermissionModel that check_perm compares, and
\* the keys of the dict a route gives to PermissionChecker
Permission(module, model, action) ==
    [module |-> module, model |-> model, action |-> action]

\* the permissions of the runs: they differ from the first in one field each
Permissions ==
    {Permission("manager", "users", "add"), Permission("manager", "users", "view"),
     Permission("manager", "profiles", "add"), Permission("auth", "users", "add")}

\* ProfileModel with its permissions fetched; NoProfile is `user.profile` of a
\* user whose profile is null
ProfileModel(id, permissions) == [id |-> id, permissions |-> permissions]
NoProfile == ProfileModel(0, {})
Profiles ==
    {NoProfile,
     ProfileModel(1, {}),
     ProfileModel(2, {Permission("manager", "users", "add")}),
     ProfileModel(3, {Permission("manager", "users", "view"),
                      Permission("manager", "profiles", "add"),
                      Permission("auth", "users", "add")})}

\* UserModel; clinic is the id of `user.clinic`, 0 when the user has none
UserModel(id, is_active, is_superuser, is_clinic_master, clinic, profile) ==
    [id |-> id, is_active |-> is_active, is_superuser |-> is_superuser,
     is_clinic_master |-> is_clinic_master, clinic |-> clinic, profile |-> profile]
NoUser == UserModel(0, FALSE, FALSE, FALSE, 0, NoProfile)
Users ==
    {UserModel(1, a, s, m, k, p) :
        a \in BOOLEAN, s \in BOOLEAN, m \in BOOLEAN, k \in Clinics \cup {0}, p \in Profiles}

\* PermissionChecker(required_permissions, me): a route gives one dict or a list
PermissionChecker(kind, required, me) == [kind |-> kind, required |-> required, me |-> me]
Checkers ==
    {PermissionChecker(kd[1], kd[2], me) :
        kd \in {<<"dict", <<Permission("manager", "users", "add")>>>>,
                <<"list", <<>>>>,
                <<"list", <<Permission("manager", "users", "view"),
                            Permission("manager", "users", "add")>>>>},
        me \in BOOLEAN}

\* PermissionChecker.check_perm
check_perm(perm_to_check, user_perm) ==
    /\ perm_to_check.module = user_perm.module
    /\ perm_to_check.model = user_perm.model
    /\ perm_to_check.action = user_perm.action

\* a Python bool
Bool(b) == IF b THEN "True" ELSE "False"

\* PermissionChecker.has_permissions; clinic is the id of the clinic given, 0
\* for None.  `user.clinic.id` and `user.profile.permissions` raise
\* AttributeError when the attribute before the dot is None.  The generator of
\* the list branch reads user.profile only when required_permissions has an
\* element to pair with it.
has_permissions(self, user, clinic) ==
    IF ~user.is_active THEN "False"
    ELSE IF user.is_superuser \/ user.is_clinic_master \/ self.me THEN "True"
    ELSE IF clinic # 0 /\ user.clinic = 0 THEN "AttributeError"
    ELSE IF clinic # 0 /\ user.clinic # clinic THEN "False"
    ELSE IF self.kind = "list"
    THEN IF self.required = <<>> THEN "False"
         ELSE IF user.profile = NoProfile THEN "AttributeError"
         ELSE Bool(\E i \in DOMAIN self.required : \E perm_user \in user.profile.permissions :
                      check_perm(self.required[i], perm_user))
    ELSE IF user.profile = NoProfile THEN "AttributeError"
    ELSE Bool(\E perm \in user.profile.permissions : check_perm(self.required[1], perm))

\* a request to a guarded route: the bearer token, the clinic ClinicByHost
\* put in request.state (0: None) and the row UserModel.get_or_none finds for
\* the user id the service names (NoUser: none)
Request(bearer, clinic, user) == [token |-> bearer, clinic |-> clinic, user |-> user]

\* the outcome of a call: the HTTP status (200: it returned), the exception
\* that left it, the user it returned and the user lookups it made
Outcome(status, exc, user, lookups) ==
    [status |-> status, exc |-> exc, user |-> user, lookups |-> lookups]

\* PermissionChecker.__call__
checker_call(self, request) ==
    IF ~check_is_token_is_valid(request.token)
    THEN Outcome(401, "HTTPException", NoUser, 0)
    ELSE IF request.user = NoUser THEN Outcome(404, "HTTPException", NoUser, 1)
    ELSE LET allowed == has_permissions(self, request.user, request.clinic)
         IN  IF allowed = "AttributeError" THEN Outcome(500, "AttributeError", NoUser, 1)
             ELSE IF allowed = "False" THEN Outcome(403, "HTTPException", NoUser, 1)
             ELSE Outcome(200, "none", request.user, 1)

\* manager/router.py register: the handler's body runs when the dependency
\* returned a user
register(outcome) == outcome.status = 200 /\ outcome.user # NoUser

\* ------------------------------------------------------ auth/service.py
\* Python values token_is_valid may be given: None, a str, a dict with or
\* without the keys 'exp' and 'type', a TokenModel
NoneValue ==
    [kind |-> "None", value |-> "", has_exp |-> FALSE, exp |-> 0, has_type |-> FALSE,
     type |-> ""]
StrValue(t) == [NoneValue EXCEPT !.kind = "str", !.value = t]
DictValue(has_exp, exp, has_type, type) ==
    [NoneValue EXCEPT !.kind = "dict", !.has_exp = has_exp, !.exp = exp,
                      !.has_type = has_type, !.type = type]
TokenModelValue(expires_at) == [NoneValue EXCEPT !.kind = "TokenModel", !.exp = expires_at]

\* UserService.token_is_valid, at time t.  `token["exp"] > now and
\* token["type"] == "access"` reads the key 'type' only when 'exp' is later
\* than now, and the subscript of a missing key raises KeyError.
token_is_valid(tok, t) ==
    IF tok.kind = "TokenModel" THEN Bool(tok.exp > t)
    ELSE IF tok.kind = "dict" /\ tok.has_exp
    THEN IF ~(tok.exp > t) THEN "False"
         ELSE IF ~tok.has_type THEN "KeyError"
         ELSE Bool(tok.type = "access")
    ELSE "False"

\* hash_password and password_is_correct (bcrypt_context.hash, .verify)
hash_password(password) == <<"bcrypt", password>>
password_is_correct(password, hashed_password) == hashed_password = hash_password(password)

\* `user.password` of the users of the runs
StoredPassword(user) == hash_password("password")
Passwords == {"password", "password_wrong"}

\* a row of TokenModel: its access token names the time of issue; NoToken:
\* the user has no row
TokenModel(issued, expires_at) == [issued |-> issued, expires_at |-> expires_at]
NoToken == TokenModel(0, 0)

\* what login ends with: `returns` is "None", "dict" (the four keys below) or
\* "raise"; status is that of the HTTPException raised; tokens is the table
\* of TokenModel afterwards
LoginResult(returns, keys, status, toks) ==
    [returns |-> returns, keys |-> keys, status |-> status, tokens |-> toks]
TokenKeys == {"access_token", "refresh_token", "token_type", "expires_at"}

\* UserService.__get_new_token of either service at time t: a user without a
\* row gets one; the row of a user that has one is changed in memory and
\* `old_token.save()` is not awaited, so the table keeps the old row
get_new_token(toks, user, t) ==
    LoginResult("dict", TokenKeys, 0,
                IF toks[user.id] = NoToken
                THEN [toks EXCEPT ![user.id] = TokenModel(t, t + 1)]
                ELSE toks)

\* UserService.login of auth/service.py; user is the row the filter finds.
\* The UserModel that service imports (auth/models.py) declares neither
\* is_superuser nor clinic: with no clinic given the first check reads
\* user.is_superuser, with a clinic the second reads user.clinic, and either
\* raises AttributeError.
login(toks, user, password, clinic, t) ==
    IF user = NoUser \/ ~password_is_correct(password, StoredPassword(user))
    THEN LoginResult("None", {}, 0, toks)
    ELSE LoginResult("raise", {}, 500, toks)

\* Mutation of the login of auth/services_old.py: the clinic resolved from the
\* host is not compared with the user's.
login_old_any_clinic(toks, user, password, clinic, t) ==
    IF user = NoUser \/ ~password_is_correct(password, StoredPassword(user))
    THEN LoginResult("raise", {}, 400, toks)
    ELSE IF clinic = 0 /\ ~user.is_superuser THEN LoginResult("raise", {}, 401, toks)
    ELSE IF user.profile = NoProfile /\ ~user.is_superuser
    THEN LoginResult("raise", {}, 401, toks)
    ELSE get_new_token(toks, user, t)

\* UserService.login of auth/services_old.py, the one the /login/ route
\* calls; its UserModel is the one of plus_db_agent, which has the attributes
\* the checks read
login_old(toks, user, password, clinic, t) ==
    IF user = NoUser \/ ~password_is_correct(password, StoredPassword(user))
    THEN LoginResult("raise", {}, 400, toks)
    ELSE IF clinic = 0 /\ ~user.is_superuser THEN LoginResult("raise", {}, 401, toks)
    ELSE IF clinic # 0 /\ user.clinic # clinic THEN LoginResult("raise", {}, 401, toks)
    ELSE IF user.profile = NoProfile /\ ~user.is_superuser
    THEN LoginResult("raise", {}, 401, toks)
    ELSE get_new_token(toks, user, t)

\* the users table: the user a bearer token decodes to (0: none) and the
\* clinic of each user
UserOfToken(t) == IF t = "tokA" THEN 1 ELSE 0
ClinicOfUser(u) == 1

\* get_user_by_token: jwt.decode of anything but a signed token fails and
\* the result is None
get_user_by_token(t) == IF t \in AcceptedTokens THEN UserOfToken(t) ELSE 0

\* check_clinic_id of src.backends (not part of the sources): the clinic exists
check_clinic_id(k) == k \in ExistingClinics

\* Mutation of the scheduler's process_connection: the uuid of the message is
\* not compared with the uuid of the connection.
scheduler_process_connection_any_uuid(S, message, client, env) ==
    LET d == message.data
        drop(X, error) == base_disconnect(sleep(send_error_message(X, client, error)), client)
        body ==
            IF d.schema # "ConnectionSchema"
            THEN send_invalid_message(S, client)
            ELSE IF token_is_valid(StrValue(d.token), S.now) # "True"
            THEN drop(S, "Token invalido")
            ELSE Then(Db(S, "db.user", env),
                      LAMBDA X :
                         LET user == get_user_by_token(X.token[client])
                         IN  IF user = 0 THEN drop(X, "Usuario nao encontrado")
                             ELSE IF ~check_clinic_id(d.clinic_id)
                                     /\ ClinicOfUser(user) # d.clinic_id
                             THEN drop(X, "Clinica nao valida")
                             ELSE send([X EXCEPT !.user_id[client] = user,
                                                 !.token[client] = d.token,
                                                 !.clinic_id[client] = d.clinic_id],
                                       client, Message("CONNECTION", d.clinic_id, NoData)))
        handler(X) == drop(X, "Erro ao validar conexao")
    IN  Except(body, {"OperationalError", "AttributeError"}, handler)

\* scheduler ConnectionManager.process_connection
scheduler_process_connection(S, message, client, env) ==
    LET d == message.data
        drop(X, error) == base_disconnect(sleep(send_error_message(X, client, error)), client)
        body ==
            IF d.schema # "ConnectionSchema" \/ d.uuid # S.uuid[client]
            THEN send_invalid_message(S, client)
            ELSE IF token_is_valid(StrValue(d.token), S.now) # "True"
            THEN drop(S, "Token invalido")
            ELSE Then(Db(S, "db.user", env),
                      LAMBDA X :
                         LET user == get_user_by_token(X.token[client])
                         IN  IF user = 0 THEN drop(X, "Usuario nao encontrado")
                             ELSE IF ~check_clinic_id(d.clinic_id)
                                     /\ ClinicOfUser(user) # d.clinic_id
                             THEN drop(X, "Clinica nao valida")
                             ELSE send([X EXCEPT !.user_id[client] = user,
                                                 !.token[client] = d.token,
                                                 !.clinic_id[client] = d.clinic_id],
                                       client, Message("CONNECTION", d.clinic_id, NoData)))
        handler(X) == drop(X, "Erro ao validar conexao")
    IN  Except(body, {"OperationalError", "AttributeError"}, handler)

\* scheduler ConnectionManager.__process_message
scheduler_process_message(S, message, client, env) ==
    LET type == message.message_type
        authenticated == Truthy(S.token[client])
        body ==
            IF type = "CONNECTION" THEN scheduler_process_connection(S, message, client, env)
            ELSE IF authenticated /\ type = "GET_FULL_MONTH_CALENDAR"
            THEN process_full_month_calendar(S, message, client, env)
            ELSE IF authenticated /\ type = "GET_FULL_WEEK_CALENDAR"
            THEN process_full_week_calendar(S, message, client, env)
            ELSE IF authenticated /\ type = "GET_DAY_CALENDAR"
            THEN process_day_calendar(S, message, client, env)
            ELSE IF authenticated /\ type = "ADD_EVENT"
            THEN process_add_event(S, message, client, env)
            ELSE IF authenticated /\ type = "EDIT_EVENT"
            THEN process_edit_event(S, message, client, env)
            ELSE IF authenticated /\ type = "REMOVE_EVENT"
            THEN process_remove_event(S, message, client, env)
            ELSE IF ~authenticated
            THEN base_disconnect(sleep(send_error_message(S, client, "Token invalido")),
                                 client)
            ELSE send_invalid_message(S, client)
        handler(X) == send_error_message(X, client, "Erro ao processar a mensagem")
    IN  Except(body, {"AttributeError", "OperationalError"}, handler)

\* the __process_message of the manager the run is of
ProcessMessage(S, message, client, env) ==
    IF manager = "wait_list" THEN process_message(S, message, client, env)
    ELSE scheduler_process_message(S, message, client, env)

\* ------------------------------------------------- the rest of the service
\* a call and what it ended with: the function, its arguments, and of the
\* results the fields that the function has
NoCall ==
    [fn |-> "none", phase |-> "return", checker |-> PermissionChecker("list", <<>>, FALSE),
     user |-> NoUser, clinic |-> 0, request |-> Request("", 0, NoUser),
     value |-> NoneValue, password |-> "", returns |-> "", keys |-> {},
     outcome |-> Outcome(0, "none", NoUser, 0), ran |-> FALSE, object |-> 0]

\* the calls of the runs, before they are made
Calls ==
    {[NoCall EXCEPT !.fn = "ConnectionManager", !.phase = "call"]}
    \cup {[NoCall EXCEPT !.fn = "has_permissions", !.phase = "call", !.checker = self,
                         !.user = user, !.clinic = k] :
             self \in Checkers, user \in Users, k \in Clinics \cup {0}}
    \cup {[NoCall EXCEPT !.fn = "register", !.phase = "call", !.checker = self,
                         !.request = Request(bearer, k, user)] :
             self \in Checkers, bearer \in Tokens, k \in Clinics \cup {0},
             user \in Users \cup {NoUser}}
    \cup {[NoCall EXCEPT !.fn = "token_is_valid", !.phase = "call", !.value = v] :
             v \in {NoneValue, StrValue(""), StrValue("tokA")}
                   \cup {TokenModelValue(e) : e \in 2..4}
                   \cup {DictValue(he, e, ht, ty) :
                            he \in BOOLEAN, e \in 2..4, ht \in BOOLEAN,
                            ty \in {"access", "refresh"}}}
    \cup {[NoCall EXCEPT !.fn = f, !.phase = "call", !.user = user, !.password = pw,
                         !.clinic = k] :
             f \in {"login", "login_old"}, user \in Users \cup {NoUser},
             pw \in Passwords, k \in Clinics \cup {0}}

\* the table of TokenModel: the row of each user id
NoTokens == [id \in {0, 1} |-> NoToken]

\* ConnectionManager.__new__: _instance is the object the class holds (0:
\* None), objects counts the objects object.__new__ has made
New(inst, objs, returns) == [instance |-> inst, objects |-> objs, returns |-> returns]

\* Mutation of __new__: a new object at every construction.
new_every_time(inst, objs) == New(objs + 1, objs + 1, objs + 1)

new(inst, objs) ==
    IF inst = 0 THEN New(objs + 1, objs + 1, objs + 1) ELSE New(inst, objs, inst)

\* ------------------------------------------------------------- inputs
\* the messages a wait-list client sends for clinic k
WaitListMessages(k) ==
    {Message("CONNECTION", k, d) : d \in {ConnectionSchema(t) : t \in Tokens} \cup {NoData}}
    \cup {Message("NEW_PATIENT_IN_WAIT", k, d) : d \in {NewPatientInWaitSchema(1), NoData}}
    \cup {Message("UPDATE_PATIENT_IN_WAIT", k, d) :
             d \in {UpdatePatientInWaitSchema(1, st) : st \in {DONE, CANCELED, WAITING}}
                   \cup {NoData}}
    \cup {Message(t, k, NoData) :
             t \in {"NEXT_PATIENT_IN_WAIT", "LIST_PATIENTS_IN_WAIT", "DISCONNECT"}}

\* the messages scheduler client c sends; the clinic a request names may or
\* may not be the clinic of the connection
SchedulerMessages(c) ==
    {Message("CONNECTION", k, SchedulerConnectionSchema(uuid[c], "tokA", k)) :
        k \in Clinics}
    \cup {Message("CONNECTION", 1, SchedulerConnectionSchema(u, t, 1)) :
             u \in {99} \cup {uuid[d] : d \in Clients \ {c}}, t \in Tokens}
    \cup {Message("CONNECTION", 1, SchedulerConnectionSchema(uuid[c], "bad", 1)),
           Message("CONNECTION", 9, SchedulerConnectionSchema(uuid[c], "tokA", 9)),
           Message("CONNECTION", 1, NoData),
           Message("GET_FULL_MONTH_CALENDAR", 1, GetFullMonthCalendarSchema(1)),
           Message("GET_FULL_WEEK_CALENDAR", 1, GetFullWeekCalendarSchema(1)),
           Message("GET_DAY_CALENDAR", 1, GetDayCalendarSchema(1)),
           Message("ADD_EVENT", 2, AddEventSchema(2, "new", "False", "False")),
           Message("ADD_EVENT", 1, NoData),
           Message("EDIT_EVENT", 1, EditEventSchema(1, 0, "edited", None, None)),
           Message("EDIT_EVENT", 1, EditEventSchema(7, 0, "edited", None, None)),
           Message("EDIT_EVENT", 1, EditEventSchema(1, 2, "", "False", None)),
           Message("REMOVE_EVENT", 1, RemoveEventSchema(1)),
           Message("REMOVE_EVENT", 1, RemoveEventSchema(7)),
           Message("DISCONNECT", 1, NoData)}

\* what client c may send to the manager of the run
Messages(c) ==
    IF manager = "wait_list" THEN WaitListMessages(clinic_id[c])
    ELSE SchedulerMessages(c)

\* a payload that is not a Message
Garbage == Message("NOT_A_TYPE", 0, NoData)

\* Message.model_validate_json: the payload is a Message
Validates(payload) ==
    payload.message_type \in
        (IF manager = "wait_list" THEN MessageType ELSE SchedulerMessageType)

\* the environment outcomes that matter to a message
EnvsFor(message) ==
    IF manager = "wait_list"
    THEN IF message.message_type = "CONNECTION" /\ message.data.schema = "ConnectionSchema"
         THEN {e \in Envs : e.db = "ok" /\ e.status = "WAITING"}
         ELSE IF message.data.schema = "NewPatientInWaitSchema"
         THEN {e \in Envs : e.db = "ok" /\ e.service = "ok"}
         ELSE {EnvOk}
    ELSE IF message.data.schema \in
               {"GetFullMonthCalendarSchema", "GetFullWeekCalendarSchema",
                "GetDayCalendarSchema", "AddEventSchema", "EditEventSchema",
                "RemoveEventSchema"}
               \/ message = Message("CONNECTION", 1,
                                    SchedulerConnectionSchema(message.data.uuid, "tokA", 1))
         THEN {e \in Envs : e.service = "ok" /\ e.status = "WAITING"}
         ELSE {EnvOk}

\* an operation: what ran, for which socket, clinic and message, in which
\* environment, the exception it ended with, and whether the socket was
\* authenticated and registered when it began
Op(op, c, k, m, env, exc) ==
    [op |-> op, client |-> c, clinic |-> k, message |-> m, env |-> env, exc |-> exc,
     authenticated |-> c \in Clients /\ Truthy(token[c]),
     registered |-> c \in Range(client_connections)]

\* the manager's and the clients' fields
fields ==
    <<client_connections, token, user_id, clinic_id, uuid, state, socket, wait_list,
      events, now>>

\* ---------------------------------------------------------- initial states
\* wait lists the manager may hold when the run starts
InitialWaitLists ==
    {<<>>,
     <<PatientWaitListSchema(1, WAITING, 1), PatientWaitListSchema(2, WAITING, 2)>>,
     <<PatientWaitListSchema(1, WAITING, 0), PatientWaitListSchema(2, WAITING, 1),
       PatientWaitListSchema(1, WAITING, 2)>>}

\* scheduler tables the database may hold when the run starts
InitialEvents ==
    {[rows |-> <<Event(1, 1, 1, 1, "first", "True", "False")>>, next_id |-> 2]}

\* the token of an authenticated client
TokenOf(m) == IF m = "wait_list" THEN MessageObject ELSE "tokA"

\* What `client.state` evaluates to.  The wait list's ClientWebSocket declares
\* no such attribute and nothing in the sources assigns it: the value is
\* whatever the framework's WebSocket gives every connection, the string
\* "open" or an object that is not equal to it.  The scheduler's disconnect is
\* its base class's: the model gives it the text of the wait list's, for
\* sockets whose state is "open".
ClientStates(m) == IF m = "wait_list" THEN {"open", "State"} ELSE {"open"}

\* sockets R are registered, in the order of the list cc; the others have
\* not been accepted yet
Registered(R, cc) ==
    /\ client_connections = cc
    /\ clinic_id \in {f \in [Clients -> Clinics \cup {0}] :
                          \A c \in Clients : (f[c] = 0) <=> (c \notin R)}
    /\ token \in {f \in [Clients -> {None, TokenOf(manager)}] :
                      \A c \in Clients : c \notin R => f[c] = None}
    /\ \E st \in ClientStates(manager) : state = [c \in Clients |-> st]
    /\ socket = [c \in Clients |-> IF c \in R THEN "accepted" ELSE "connecting"]
    /\ uuid = [c \in Clients |-> IF c \in R THEN c ELSE 0]
    /\ user_id = [c \in Clients |-> IF Truthy(token[c]) THEN 1 ELSE 0]

\* the sorted list of a set of sockets
RECURSIVE Sorted(_)
Sorted(R) ==
    IF R = {} THEN <<>>
    ELSE LET m == CHOOSE x \in R : \A y \in R : x <= y
         IN  <<m>> \o Sorted(R \ {m})

\* the application before its lifespan starts: main.py has constructed the
\* manager, nothing is queued, no thread runs
Created ==
    /\ now = 3
    /\ queue = <<>>
    /\ puts = 0
    /\ app = "created"
    /\ threads = <<>>
    /\ log = <<>>
    /\ last = Op("init", 0, 0, NoMessage, EnvOk, "none")
    /\ tokens = NoTokens
    /\ call = NoCall
    /\ instance = 1
    /\ objects = 1

Init ==
    /\ manager \in {"wait_list", "scheduler"}
    /\ \E R \in (IF manager = "wait_list" THEN SUBSET Clients ELSE {Clients}) :
          Registered(R, Sorted(R))
    /\ wait_list \in (IF manager = "wait_list" THEN InitialWaitLists ELSE {<<>>})
    /\ events \in (IF manager = "scheduler" THEN InitialEvents
                    ELSE {[rows |-> <<>>, next_id |-> 1]})
    /\ Created

\* ------------------------------------------------------------ actions
\* main.py lifespan: the application starts the consumer thread once
lifespan ==
    /\ app = "created"
    /\ app' = "running"
    /\ threads' = start_main_thread(threads)
    /\ log' = <<>>
    /\ last' = Op("lifespan", 0, 0, NoMessage, EnvOk, "none")
    /\ UNCHANGED <<others, manager, fields, queue, puts>>

\* main.py websocket endpoint, on the server's thread: a new socket connects
\* for clinic k
Connect(c, k) ==
    /\ manager = "wait_list"
    /\ socket[c] = "connecting"
    /\ \E S \in {connect(Snapshot, c, k, c + 10)} :
           /\ Commit(S)
           /\ last' = Op("connect", c, k, NoMessage, EnvOk, S.exc)
    /\ UNCHANGED <<others, manager, queue, puts, app, threads>>

\* ConnectionManager.__process_queue, one turn of the loop of thread t for
\* an item (c, m) that the listener of socket c queued: the message is
\* processed, and an exception ends the thread
Turn(t, c, m, env) ==
    /\ threads[t].pc = "loop"
    /\ uuid[c] # 0
    /\ \E S \in {ProcessMessage(Snapshot, m, c, env)} :
           /\ Commit(S)
           /\ threads' = [threads EXCEPT ![t] =
                  [pc |-> IF S.exc = "none" THEN "loop" ELSE "dead", client |-> 0,
                   message |-> NoMessage, seq |-> 0, exc |-> S.exc]]
           /\ last' = Op("process", c, clinic_id[c], m, env, S.exc)
    /\ UNCHANGED <<others, manager, queue, puts, app>>

Next ==
    \/ lifespan
    \/ \E c \in Clients, k \in ExistingClinics \cup MissingClinics : Connect(c, k)
    \/ \E t \in DOMAIN threads, c \in Clients :
          \E m \in Messages(c) : \E env \in EnvsFor(m) : Turn(t, c, m, env)

\* The handlers, applied to whatever item the consumer takes from the queue.
Spec == Init /\ [][Next]_vars

\* ------------------------------------------------- the queue, end to end
\* what the clients of the wait list send in the runs of the queue
QueueMessages(c) ==
    {Message("LIST_PATIENTS_IN_WAIT", clinic_id[c], NoData),
     Message("NEXT_PATIENT_IN_WAIT", clinic_id[c], NoData),
     Message("NEW_PATIENT_IN_WAIT", clinic_id[c], NewPatientInWaitSchema(1))}

InitQueue ==
    /\ manager = "wait_list"
    /\ \E R \in SUBSET Clients : R # {} /\ Registered(R, Sorted(R))
    /\ wait_list \in InitialWaitLists
    /\ events = [rows |-> <<>>, next_id |-> 1]
    /\ Created

\* ConnectionManager.__listenner on the server's thread, one turn of its loop:
\* a payload that validates is put on the queue, another is answered
listenner(c, payload) ==
    /\ uuid[c] # 0
    /\ socket[c] = "accepted"
    /\ IF Validates(payload)
       THEN /\ puts < MaxQueue
            /\ queue' = Append(queue, [client |-> c, message |-> payload, seq |-> puts + 1])
            /\ puts' = puts + 1
            /\ log' = <<>>
            /\ last' = Op("listen", c, clinic_id[c], payload, EnvOk, "none")
            /\ UNCHANGED fields
       ELSE \E S \in {send_invalid_message(Snapshot, c)} :
                /\ Commit(S)
                /\ last' = Op("listen", c, clinic_id[c], payload, EnvOk, S.exc)
                /\ UNCHANGED <<queue, puts>>
    /\ UNCHANGED <<others, manager, app, threads>>

\* __listenner when the peer goes away: receive_json raises WebSocketDisconnect
\* and the handler calls disconnect without awaiting it, so its body never
\* runs and the listener returns
WebSocketDisconnect(c) ==
    /\ uuid[c] # 0
    /\ socket[c] = "accepted"
    /\ socket' = [socket EXCEPT ![c] = "closed"]
    /\ log' = <<>>
    /\ last' = Op("WebSocketDisconnect", c, clinic_id[c], NoMessage, EnvOk, "none")
    /\ UNCHANGED <<others, manager, client_connections, token, user_id, clinic_id, uuid, state,
                   wait_list, events, now, queue, puts, app, threads>>

\* __process_queue on the consumer's thread: `websocket, message = await
\* self.queue.get()`
Dequeue(t) ==
    /\ threads[t].pc = "loop"
    /\ queue # <<>>
    /\ threads' = [threads EXCEPT ![t] =
           [pc |-> "process", client |-> Head(queue).client,
            message |-> Head(queue).message, seq |-> Head(queue).seq, exc |-> "none"]]
    /\ queue' = Tail(queue)
    /\ log' = <<>>
    /\ last' = Op("dequeue", Head(queue).client, clinic_id[Head(queue).client],
                  Head(queue).message, EnvOk, "none")
    /\ UNCHANGED <<others, manager, fields, puts, app>>

\* __process_queue: `await self.__process_message(message, websocket)`; an
\* exception it lets through ends the thread
Process(t, env) ==
    /\ threads[t].pc = "process"
    /\ env \in EnvsFor(threads[t].message)
    /\ \E c \in {threads[t].client}, m \in {threads[t].message} :
        \E S \in {ProcessMessage(Snapshot, m, c, env)} :
           /\ Commit(S)
           /\ threads' = [threads EXCEPT ![t].pc = IF S.exc = "none" THEN "loop" ELSE "dead",
                                         ![t].exc = S.exc]
           /\ last' = Op("process", c, clinic_id[c], m, env, S.exc)
    /\ UNCHANGED <<others, manager, queue, puts, app>>

NextQueue ==
    \/ lifespan
    \/ \E c \in Clients, k \in ExistingClinics \cup MissingClinics : Connect(c, k)
    \/ \E c \in Clients : \E payload \in QueueMessages(c) \cup {Garbage} :
          listenner(c, payload)
    \/ \E c \in Clients : WebSocketDisconnect(c)
    \/ \E t \in DOMAIN threads : Dequeue(t)
    \/ \E t \in DOMAIN threads, env \in Envs : Process(t, env)

\* The server's thread (connect, listeners) and the consumer's thread, with
\* the queue between them.
SpecQueue == InitQueue /\ [][NextQueue]_vars

\* The same runs when the scheduler of each thread is fair: the application
\* enters its lifespan, and a live consumer thread keeps taking turns of its
\* loop (`await asyncio.sleep(1)` returns, `queue.get()` of a non-empty queue
\* returns, a handler returns or raises).
SpecQueueFair ==
    /\ SpecQueue
    /\ WF_vars(lifespan)
    /\ WF_vars(\E t \in DOMAIN threads : Dequeue(t))
    /\ WF_vars(\E t \in DOMAIN threads, env \in Envs : Process(t, env))

\* ------------------------------------------------------- the broadcast
\* lists of distinct sockets: connect appends each socket once
Lists == {<<>>} \cup {<<c>> : c \in Clients}
         \cup {<<c, d>> : <<c, d>> \in {x \in Clients \X Clients : x[1] # x[2]}}

\* messages to broadcast
BroadcastMessages ==
    {Message("NEXT_PATIENT_IN_WAIT", 1, PatientWaitListSchema(1, DONE, 1)),
     Message("ADD_EVENT", 2, NoData)}

InitBroadcast ==
    /\ manager \in {"wait_list", "scheduler"}
    /\ \E cc \in Lists : Registered(Range(cc), cc)
    /\ wait_list \in (IF manager = "wait_list" THEN InitialWaitLists ELSE {<<>>})
    /\ events = [rows |-> <<>>, next_id |-> 1]
    /\ Created

\* broadcast_clinic_messages(clinic_id, message), as a handler calls it
Broadcast(k, m) ==
    /\ \E S \in {broadcast_clinic_messages(Snapshot, k, m)} :
           /\ Commit(S)
           /\ last' = Op("broadcast", 0, k, m, EnvOk, S.exc)
    /\ UNCHANGED <<others, manager, queue, puts, app, threads>>

\* disconnect(client), as a handler calls it
Disconnect(c) ==
    /\ \E S \in {disconnect(Snapshot, c)} :
           /\ Commit(S)
           /\ last' = Op("disconnect", c, clinic_id[c], NoMessage, EnvOk, S.exc)
    /\ UNCHANGED <<others, manager, queue, puts, app, threads>>

NextBroadcast ==
    \/ \E k \in Clinics \cup MissingClinics, m \in BroadcastMessages : Broadcast(k, m)
    \/ \E c \in Clients : Disconnect(c)

\* broadcast_clinic_messages and disconnect from every list of connections.
SpecBroadcast == InitBroadcast /\ [][NextBroadcast]_vars

\* ------------------------------------------- calls outside the handlers
\* what those calls leave alone
connections ==
    <<manager, fields, queue, puts, app, threads, log, last>>

\* the class is defined and nothing has been constructed; one call is about
\* to be made, and the user of a login has a row of TokenModel or none
InitService ==
    /\ manager = "wait_list"
    /\ Registered({}, <<>>)
    /\ wait_list = <<>>
    /\ events = [rows |-> <<>>, next_id |-> 1]
    /\ now = 3
    /\ queue = <<>>
    /\ puts = 0
    /\ app = "created"
    /\ threads = <<>>
    /\ log = <<>>
    /\ last = Op("init", 0, 0, NoMessage, EnvOk, "none")
    /\ call \in Calls
    /\ tokens \in (IF call.fn \in {"login", "login_old"}
                   THEN {NoTokens, [NoTokens EXCEPT ![1] = TokenModel(1, 2)]}
                   ELSE {NoTokens})
    /\ instance = 0
    /\ objects = 0

\* ConnectionManager(): main.py constructs the manager, and so may any caller
Construct ==
    /\ call.fn = "ConnectionManager"
    /\ \E r \in {new(instance, objects)} :
          /\ instance' = r.instance
          /\ objects' = r.objects
          /\ call' = [call EXCEPT !.phase = "return", !.object = r.returns]
    /\ UNCHANGED <<connections, tokens>>

\* has_permissions(user, clinic) of a checker
HasPermissions ==
    /\ call.fn = "has_permissions" /\ call.phase = "call"
    /\ call' = [call EXCEPT !.phase = "return",
                            !.returns = has_permissions(call.checker, call.user, call.clinic)]
    /\ UNCHANGED <<connections, tokens, instance, objects>>

\* a request to the route register, guarded by a checker
Guarded ==
    /\ call.fn = "register" /\ call.phase = "call"
    /\ \E outcome \in {checker_call(call.checker, call.request)} :
          call' = [call EXCEPT !.phase = "return", !.outcome = outcome,
                               !.ran = register(outcome)]
    /\ UNCHANGED <<connections, tokens, instance, objects>>

\* token_is_valid(token)
TokenIsValid ==
    /\ call.fn = "token_is_valid" /\ call.phase = "call"
    /\ call' = [call EXCEPT !.phase = "return", !.returns = token_is_valid(call.value, now)]
    /\ UNCHANGED <<connections, tokens, instance, objects>>

\* login(email_or_username, password, clinic) of either service: the call
\* about to be made, or one more for the same user
Login(f, pw, k) ==
    /\ call.fn \in {"login", "login_old"}
    /\ call.phase = "call" => f = call.fn /\ pw = call.password /\ k = call.clinic
    /\ \E r \in {IF f = "login" THEN login(tokens, call.user, pw, k, now)
                 ELSE login_old(tokens, call.user, pw, k, now)} :
          /\ tokens' = r.tokens
          /\ call' = [call EXCEPT !.fn = f, !.phase = "return", !.password = pw,
                                  !.clinic = k, !.returns = r.returns, !.keys = r.keys,
                                  !.outcome = Outcome(r.status, "none", NoUser, 1)]
    /\ UNCHANGED <<connections, instance, objects>>

NextService ==
    \/ Construct
    \/ HasPermissions
    \/ Guarded
    \/ TokenIsValid
    \/ \E f \in {"login", "login_old"}, pw \in Passwords, k \in Clinics \cup {0} :
          Login(f, pw, k)

\* The constructor, the permission checker, token_is_valid and login, each
\* called with every argument of the runs.
SpecService == InitService /\ [][NextService]_vars

\* ------------------------------------------------------------- properties
\* the positions of the log at which the last operation sent something
Sent == {i \in DOMAIN log : log[i].ev = "send"}

\* the positions at which it sent a message of type ty to socket c
SentTo(c, ty) ==
    {i \in Sent : log[i].client = c /\ log[i].msg.message_type = ty}

\* the positions at which it sent socket c the error message `text`
SentError(c, text) ==
    {i \in Sent : /\ log[i].client = c
                  /\ log[i].msg.message_type = "ERROR"
                  /\ log[i].msg.data = ErrorResponseSchema(text)}

\* the last operation ran the handler of a message of type ty
Processed(ty) == last.op = "process" /\ last.message.message_type = ty

\* the scheduler's requests that change an event, with the schema of each
EventRequests ==
    {<<"ADD_EVENT", "AddEventSchema">>, <<"EDIT_EVENT", "EditEventSchema">>,
     <<"REMOVE_EVENT", "RemoveEventSchema">>}

\* C1: in the wait-list manager, the processing of a NEW_PATIENT_IN_WAIT or
\* NEXT_PATIENT_IN_WAIT that changes the wait list sends a message of that type
\* to every connection of client_connections whose clinic_id is the sender's.
C1_StateChangesReachTheClinic ==
    [][(/\ manager = "wait_list"
        /\ last'.op = "process"
        /\ last'.message.message_type \in {"NEW_PATIENT_IN_WAIT", "NEXT_PATIENT_IN_WAIT"}
        /\ wait_list' # wait_list)
       => \A c \in Range(client_connections') :
             clinic_id'[c] = last'.clinic =>
                \E i \in DOMAIN log' :
                   /\ log'[i].ev = "send"
                   /\ log'[i].client = c
                   /\ log'[i].msg.message_type = last'.message.message_type]_vars

C3_BroadcastReachesTheClinic ==
    last.op = "broadcast" =>
       /\ \A c \in Clients :
             Cardinality({i \in DOMAIN log : log[i] = Effect("send", c, last.message)}) =
                IF c \in Range(client_connections) /\ clinic_id[c] = last.clinic
                THEN 1 ELSE 0
       /\ Len(log) = Cardinality({c \in Range(client_connections) :
                                     clinic_id[c] = last.clinic})

\* a broadcast over two connections of different clinics, the second of which
\* was sent the message
C3_Witness ==
    /\ last.op = "broadcast"
    /\ Len(client_connections) = 2
    /\ clinic_id[client_connections[1]] # last.clinic
    /\ clinic_id[client_connections[2]] = last.clinic
    /\ log = <<Effect("send", client_connections[2], last.message)>>

\* C4: when a message of a type other than CONNECTION is processed for a client
\* whose token is unset, the wait list and the scheduler's events are unchanged,
\* the database is not called, the only message sent is the ERROR
\* 'Token invalido' to that client, sent first, and disconnect has run: the
\* client is not in client_connections, and its socket is closed when its
\* state is "open".
C4_UnauthenticatedIsDropped ==
    [][(/\ last'.op = "process"
        /\ ~last'.authenticated
        /\ last'.message.message_type # "CONNECTION")
       => /\ wait_list' = wait_list
          /\ events' = events
          /\ \A i \in DOMAIN log' : log'[i].ev \notin
                {"db.filter", "db.create", "db.get", "db.save", "db.delete", "db.user"}
          /\ Len(log') >= 2
          /\ log'[1] = Effect("send", last'.client,
                              Message("ERROR", clinic_id[last'.client],
                                      ErrorResponseSchema("Token invalido")))
          /\ \A i \in DOMAIN log' : log'[i].ev = "send" => i = 1
          /\ last'.client \notin Range(client_connections')
          /\ state[last'.client] = "open" => socket'[last'.client] = "closed"
          /\ token' = token
          /\ last'.exc = "none"]_vars

\* a registered client without a token asked for the next patient of a wait
\* list that has one, and was dropped
C4_Witness ==
    /\ manager = "wait_list"
    /\ Processed("NEXT_PATIENT_IN_WAIT")
    /\ ~last.authenticated
    /\ last.registered
    /\ wait_list # <<>>
    /\ SentError(last.client, "Token invalido") = {1}
    /\ last.client \notin Range(client_connections)

\* C5: a client's token changes only when a CONNECTION of that client is
\* processed whose token the validation service accepts; processing a
\* CONNECTION (in the scheduler, one carrying the socket's uuid) whose token the
\* service rejects sends the ERROR 'Token invalido' and nothing else, removes
\* the client from client_connections and changes no token.
C5_TokenOnlyFromAcceptedConnection ==
    [][/\ \A c \in Clients :
             token'[c] # token[c] =>
                /\ last'.op = "process"
                /\ last'.client = c
                /\ last'.message.message_type = "CONNECTION"
                /\ last'.message.data.schema = "ConnectionSchema"
                /\ last'.message.data.token \in AcceptedTokens
                /\ last'.env.service = "ok"
       /\ (/\ last'.op = "process"
           /\ last'.message.message_type = "CONNECTION"
           /\ last'.message.data.schema = "ConnectionSchema"
           /\ manager = "scheduler" => last'.message.data.uuid = uuid[last'.client]
           /\ last'.env.service = "ok"
           /\ last'.message.data.token \notin AcceptedTokens)
          => /\ Len(log') >= 2
             /\ log'[1] = Effect("send", last'.client,
                                 Message("ERROR", clinic_id[last'.client],
                                         ErrorResponseSchema("Token invalido")))
             /\ \A i \in DOMAIN log' : log'[i].ev = "send" => i = 1
             /\ last'.client \notin Range(client_connections')
             /\ token' = token]_vars

\* a registered client without a token sent a CONNECTION with a token the
\* service rejects: it was answered, removed, and has no token
C5_Witness ==
    /\ manager = "wait_list"
    /\ Processed("CONNECTION")
    /\ last.message.data = ConnectionSchema("bad")
    /\ last.registered
    /\ ~last.authenticated
    /\ SentError(last.client, "Token invalido") = {1}
    /\ last.client \notin Range(client_connections)
    /\ token[last.client] = None

\* C6: after the CONNECTION of a registered client without a token is
\* processed, well-formed and carrying a token the validation service accepts
\* (in the scheduler also the socket's uuid and the clinic of the token's
\* user), with the service and the database answering, the client has a token
\* and a user_id, was sent a CONNECTION message and is in client_connections.
C6_AcceptedConnectionAuthenticates ==
    (/\ Processed("CONNECTION")
     /\ last.message.data.schema = "ConnectionSchema"
     /\ last.message.data.token \in AcceptedTokens
     /\ last.env = EnvOk
     /\ last.registered
     /\ ~last.authenticated
     /\ manager = "scheduler" =>
           /\ last.message.data.uuid = uuid[last.client]
           /\ last.message.data.clinic_id =
                 ClinicOfUser(UserOfToken(last.message.data.token)))
    => /\ Truthy(token[last.client])
       /\ user_id[last.client] # 0
       /\ SentTo(last.client, "CONNECTION") # {}
       /\ last.client \in Range(client_connections)
       /\ last.exc = "none"

\* C7: there is at most one consumer thread, and exactly one once the
\* application runs; a thread takes an item only while it is processing none,
\* the item it takes is the head of the queue, which is the item put right
\* after the one it took before, and the queue loses items in no other way; at
\* most one message is being processed at any time.
C7_OneConsumerInOrder ==
    [][/\ Len(threads') <= 1
       /\ app' = "running" => Len(threads') = 1
       /\ Cardinality({t \in DOMAIN threads' : threads'[t].pc = "process"}) <= 1
       /\ \A t \in DOMAIN threads \cap DOMAIN threads' :
             (threads'[t].pc = "process" /\ threads[t].pc # "process") =>
                /\ threads[t].pc = "loop"
                /\ queue # <<>>
                /\ threads'[t].client = Head(queue).client
                /\ threads'[t].message = Head(queue).message
                /\ threads'[t].seq = Head(queue).seq
                /\ threads'[t].seq = threads[t].seq + 1
                /\ queue' = Tail(queue)
       /\ queue' # queue =>
             \/ \E item \in [client : Clients, message : {m.message : m \in Range(queue')},
                             seq : {puts + 1}] : queue' = Append(queue, item)
             \/ /\ queue' = Tail(queue)
                /\ \E t \in DOMAIN threads :
                      threads[t].pc = "loop" /\ threads'[t].pc = "process"]_vars

\* the second message put on the queue has been processed, after the first
C7_Witness ==
    /\ last.op = "process"
    /\ \E t \in DOMAIN threads : threads[t].seq = 2 /\ threads[t].pc = "loop"
    /\ queue = <<>>
    /\ puts = 2

C9_FailuresAreAnswered ==
    last.op = "process" =>
       /\ last.exc = "none"
       /\ \A t \in DOMAIN threads : threads[t].pc # "dead"
       /\ (\E i \in DOMAIN log : log[i].ev = "db.error") =>
             \E i \in Sent : log[i].client = last.client
                             /\ log[i].msg.message_type = "ERROR"

\* C10: whenever a connection is dropped for an error (connect for a clinic
\* that does not exist; a handler that removes or closes the client), an ERROR
\* message is sent to the client before anything else happens to it, and the
\* client is not in client_connections afterwards.
C10_ErrorBeforeDrop ==
    LET c == last.client
        dropped ==
            \/ last.op = "connect" /\ last.clinic \in MissingClinics
            \/ last.op = "process" /\ \E i \in DOMAIN log :
                  log[i].ev \in {"remove", "close"} /\ log[i].client = c
    IN  dropped =>
           /\ log # <<>>
           /\ log[1].ev = "send"
           /\ log[1].client = c
           /\ log[1].msg.message_type = "ERROR"
           /\ c \notin Range(client_connections)

\* the consumer has taken the s-th item put on the queue and its handler has
\* returned or raised
Handled(s) ==
    \E t \in DOMAIN threads : threads[t].seq >= s /\ threads[t].pc # "process"

\* C11: every message of a registered client that validates as a Message is
\* put on the queue, and every item put on the queue is eventually dequeued
\* and processed by the consumer thread the application started.
C11_QueuedIsProcessed ==
    \A s \in 1..MaxQueue : [](puts >= s => <>Handled(s))

\* the entries of list l are in the order in which they were enqueued
InEnqueueOrder(l) ==
    \A i, j \in DOMAIN l : i < j => l[i].created_at < l[j].created_at

Entries(l) == {<<l[i].patient_id, l[i].created_at>> : i \in DOMAIN l}

\* the entries that the answers in log lg return: the one a
\* NEXT_PATIENT_IN_WAIT answer carries or those of a LIST_PATIENTS_IN_WAIT answer
ReturnedIn(lg) ==
    UNION {IF lg[i].msg.data.schema = "PatientWaitListSchema"
           THEN {<<lg[i].msg.data.patient_id, lg[i].msg.data.created_at>>}
           ELSE Entries(lg[i].msg.data.patients) :
           i \in {j \in DOMAIN lg : /\ lg[j].ev = "send"
                                    /\ lg[j].msg.message_type = "NEXT_PATIENT_IN_WAIT"}}

\* C13: the clinic is a tenant boundary for the wait list.  An entry was
\* enqueued through the connections of one clinic, so if it is never returned
\* to nor removed by a connection of another clinic, no entry is returned to a
\* connection of one clinic and then returned to, or removed by, a connection
\* of a different clinic in the next message processed.
C13_WaitListIsPerClinic ==
    [][(/\ last.op = "process" /\ last'.op = "process"
        /\ last.clinic # last'.clinic) =>
          ReturnedIn(log) \cap (ReturnedIn(log')
                                \cup (Entries(wait_list) \ Entries(wait_list'))) = {}]_vars

\* C14: has_permissions(user, clinic) is False for every inactive user;
\* otherwise True for a superuser, a clinic master or a checker built with
\* me=True; otherwise False when a clinic is given that is not the user's;
\* otherwise True exactly when a required permission and a permission of the
\* user's profile have the same module, model and action.
C14_PermissionDecision ==
    (call.fn = "has_permissions" /\ call.phase = "return") =>
        LET user == call.user
            self == call.checker
        IN  call.returns =
              IF ~user.is_active THEN "False"
              ELSE IF user.is_superuser \/ user.is_clinic_master \/ self.me THEN "True"
              ELSE IF call.clinic # 0 /\ user.clinic # call.clinic THEN "False"
              ELSE Bool(\E required \in Range(self.required) :
                          \E held \in user.profile.permissions :
                             /\ required.module = held.module
                             /\ required.model = held.model
                             /\ required.action = held.action)

\* C15: a request to a guarded route ends in one of four outcomes, decided in
\* this order: 401 when the service rejects the token, and then no user was
\* looked up; 404 when no user is found; 403 when has_permissions is False;
\* otherwise the user is returned.  The handler runs only in the last case.
C15_GuardOutcomes ==
    (call.fn = "register" /\ call.phase = "return") =>
        LET request == call.request
            outcome == call.outcome
        IN  /\ outcome.status \in {401, 404, 403, 200}
            /\ outcome.status = 401 <=> ~check_is_token_is_valid(request.token)
            /\ outcome.status = 401 => outcome.lookups = 0
            /\ outcome.status = 404 <=>
                  check_is_token_is_valid(request.token) /\ request.user = NoUser
            /\ outcome.status = 200 => outcome.user = request.user
            /\ call.ran <=> outcome.status = 200

\* C16: token_is_valid is True for a TokenModel exactly when its expires_at is
\* later than now, True for a dict exactly when it has an 'exp' later than
\* now and its type is 'access', and False for every other value.
C16_TokenValidity ==
    (call.fn = "token_is_valid" /\ call.phase = "return") =>
        LET tok == call.value
        IN  call.returns =
              Bool(\/ tok.kind = "TokenModel" /\ tok.exp > now
                   \/ /\ tok.kind = "dict" /\ tok.has_exp /\ tok.exp > now
                      /\ tok.has_type /\ tok.type = "access")

\* a step is a return of login, of either service
LoginReturns == call'.fn \in {"login", "login_old"} /\ call'.phase = "return"

\* the credentials of the login that returned match a user
GoodCredentials == call'.user # NoUser /\ call'.password = "password"

\* the login that returned would cross the tenant boundary: no clinic was
\* resolved and the user is not a superuser, the clinic resolved is not the
\* user's, or the user has no profile and is not a superuser
CrossesTenants ==
    \/ call'.clinic = 0 /\ ~call'.user.is_superuser
    \/ call'.clinic # 0 /\ call'.user.clinic # call'.clinic
    \/ call'.user.profile = NoProfile /\ ~call'.user.is_superuser

\* C17: login with a name that matches no user or with a wrong password
\* returns None and leaves the token records as they were; login with
\* correct credentials (that the tenant checks let through) returns a dict
\* with access token, refresh token, token type and expiry.
C17_LoginResult ==
    [][LoginReturns =>
          IF ~GoodCredentials
          THEN call'.returns = "None" /\ tokens' = tokens
          ELSE ~CrossesTenants => call'.returns = "dict" /\ call'.keys = TokenKeys]_vars

\* C18: the login of services_old, which the route calls, with correct
\* credentials that would cross the tenant boundary fails with 401 and
\* creates or updates no token record.
C18_LoginStaysInTheTenant ==
    [][(LoginReturns /\ call'.fn = "login_old" /\ GoodCredentials /\ CrossesTenants) =>
          /\ call'.returns = "raise"
          /\ call'.outcome.status = 401
          /\ tokens' = tokens]_vars

\* The login the route calls was given the password of a user that has a
\* profile, from the host of a clinic that is not the user's, and was refused.
C18_Witness ==
    /\ call.fn = "login_old" /\ call.phase = "return"
    /\ call.password = "password"
    /\ call.user # NoUser /\ call.user.profile # NoProfile
    /\ call.user.clinic = 1 /\ call.clinic = 2
    /\ call.outcome.status = 401
    /\ tokens = NoTokens

\* C19: the wait-list ConnectionManager is a singleton.  Every construction
\* returns the object the class holds and no second object is ever made, so
\* every caller reads client_connections, queue and wait_list through the
\* same object.
C19_OneManager ==
    /\ objects <= 1
    /\ (call.fn = "ConnectionManager" /\ call.phase = "return") =>
          /\ objects = 1
          /\ instance = 1
          /\ call.object = instance

\* the manager has been constructed
C19_Witness ==
    /\ call.fn = "ConnectionManager" /\ call.phase = "return"
    /\ call.object = 1
    /\ instance = 1

\* C20: connect registers a connection only for an existing clinic.  For a
\* clinic that does not exist it sends ERROR, closes the socket and leaves
\* client_connections as it was; for an existing clinic it accepts the
\* socket, sets its clinic_id and uuid, sends CREATE_UUID with that uuid and
\* appends it; every member of client_connections is accepted and has a
\* clinic_id and a uuid.
C20_ConnectRegistersExistingClinics ==
    /\ \A c \in Range(client_connections) :
          socket[c] = "accepted" /\ clinic_id[c] # 0 /\ uuid[c] # 0
    /\ last.op = "connect" =>
          LET c == last.client
          IN  IF last.clinic \in ExistingClinics
              THEN /\ socket[c] = "accepted"
                   /\ clinic_id[c] = last.clinic
                   /\ uuid[c] # 0
                   /\ \E i \in SentTo(c, "CREATE_UUID") :
                         log[i].msg.data = CreateUUIDSchema(uuid[c])
                   /\ c \in Range(client_connections)
              ELSE /\ SentTo(c, "ERROR") # {}
                   /\ socket[c] = "closed"
                   /\ c \notin Range(client_connections)

\* C21: after disconnect(client) the client is not in client_connections,
\* the other connections are the same and in the same order, no field of
\* another client, the queue or the wait list has changed, and nothing was
\* sent; for a client that was not in the list nothing changes at all; and a
\* broadcast sends only to members of client_connections, so not to a client
\* that was disconnected.
C21_DisconnectRemovesOnlyTheClient ==
    [][/\ last'.op = "disconnect" =>
            LET c == last'.client
            IN  /\ c \notin Range(client_connections')
                /\ client_connections' = ListRemove(client_connections, c)
                /\ \A d \in Clients \ {c} :
                      /\ token'[d] = token[d] /\ user_id'[d] = user_id[d]
                      /\ clinic_id'[d] = clinic_id[d] /\ uuid'[d] = uuid[d]
                      /\ state'[d] = state[d] /\ socket'[d] = socket[d]
                /\ queue' = queue /\ wait_list' = wait_list /\ events' = events
                /\ Sent' = {}
                /\ c \notin Range(client_connections) =>
                      /\ client_connections' = client_connections
                      /\ \A i \in DOMAIN log' : log'[i].ev # "remove"
                      /\ token' = token /\ clinic_id' = clinic_id /\ uuid' = uuid
       /\ last'.op = "broadcast" =>
            \A i \in Sent' : log'[i].client \in Range(client_connections)]_vars

\* the first of two connections has been disconnected: the second remains
C21_Witness ==
    /\ last.op = "disconnect"
    /\ last.registered
    /\ \E i \in DOMAIN log : log[i] = Effect("remove", last.client, NoMessage)
    /\ Len(client_connections) = 1
    /\ wait_list # <<>>

\* C22: the listener answers a payload that does not validate as a Message
\* with INVALID, does not put it on the queue and goes on listening on the
\* connection, which stays registered; when the socket disconnects, the
\* client is removed from client_connections.
C22_ListenerAnswersAndCleansUp ==
    [][/\ (last'.op = "listen" /\ ~Validates(last'.message)) =>
            /\ (SentTo(last.client, "INVALID") # {})'
            /\ queue' = queue
            /\ socket'[last'.client] = "accepted"
            /\ client_connections' = client_connections
       /\ last'.op = "WebSocketDisconnect" =>
            last'.client \notin Range(client_connections')]_vars

\* C23: processing the NEW_PATIENT_IN_WAIT of an authenticated client with
\* valid data appends exactly one entry (that patient id, status WAITING) at
\* the tail of the wait list, leaves the earlier entries unchanged, answers the
\* sender with NEW_PATIENT_IN_WAIT carrying the patient id, and completes
\* normally: no ERROR reply, no exception, the consumer goes on.
C23_EnqueueAppendsAndAnswers ==
    [][(/\ manager = "wait_list"
        /\ last'.op = "process"
        /\ last'.authenticated
        /\ last'.env = EnvOk
        /\ last'.message.message_type = "NEW_PATIENT_IN_WAIT"
        /\ last'.message.data.schema = "NewPatientInWaitSchema")
       => LET c == last'.client
              p == last'.message.data.patient_id
          IN  /\ Len(wait_list') = Len(wait_list) + 1
              /\ SubSeq(wait_list', 1, Len(wait_list)) = wait_list
              /\ wait_list'[Len(wait_list')].patient_id = p
              /\ wait_list'[Len(wait_list')].status = WAITING
              /\ \E i \in DOMAIN log' :
                     /\ log'[i].ev = "send"
                     /\ log'[i].client = c
                     /\ log'[i].msg.message_type = "NEW_PATIENT_IN_WAIT"
                     /\ log'[i].msg.data = NewPatientInWaitSchema(p)
              /\ \A i \in DOMAIN log' :
                     log'[i].ev = "send" => log'[i].msg.message_type # "ERROR"
              /\ last'.exc = "none"
              /\ \A t \in DOMAIN threads' : threads'[t].pc # "dead"]_vars

\* the entries of list l that are not of patient p, in their order
NotOfPatient(l, p) == SelectSeq(l, LAMBDA e : e.patient_id # p)

\* C24: processing the UPDATE_PATIENT_IN_WAIT of an authenticated client with
\* status CANCELED or DONE removes every wait-list entry of that patient id and
\* keeps the other entries in their order; with any other status the wait list
\* is unchanged; in both cases the sender is sent UPDATE_PATIENT_IN_WAIT.
C24_UpdateRemovesThePatient ==
    [][(/\ manager = "wait_list"
        /\ last'.op = "process"
        /\ last'.authenticated
        /\ last'.message.message_type = "UPDATE_PATIENT_IN_WAIT"
        /\ last'.message.data.schema = "UpdatePatientInWaitSchema")
       => LET d == last'.message.data
          IN  /\ d.status \in {CANCELED, DONE} =>
                    wait_list' = NotOfPatient(wait_list, d.patient_id)
              /\ d.status \notin {CANCELED, DONE} => wait_list' = wait_list
              /\ (SentTo(last.client, "UPDATE_PATIENT_IN_WAIT") # {})'
              /\ last'.exc = "none"]_vars

\* an update with status CANCELED took patient 1 out of the list that held it
\* before and after patient 2, who stays
C24_Witness ==
    /\ manager = "wait_list"
    /\ Processed("UPDATE_PATIENT_IN_WAIT")
    /\ last.authenticated
    /\ last.message.data.status = CANCELED
    /\ last.message.data.patient_id = 1
    /\ wait_list = <<PatientWaitListSchema(2, WAITING, 1)>>
    /\ SentTo(last.client, "UPDATE_PATIENT_IN_WAIT") # {}

\* C25: NEXT_PATIENT_IN_WAIT of an authenticated client on an empty wait list
\* is answered with the ERROR message "Fila vazia", the wait list stays empty
\* and the connection stays registered; LIST_PATIENTS_IN_WAIT is answered with
\* the wait list as it is, in its order, and does not change it.
C25_EmptyListAndListing ==
    [][(manager = "wait_list" /\ last'.op = "process" /\ last'.authenticated) =>
          LET c == last'.client
          IN  /\ (last'.message.message_type = "NEXT_PATIENT_IN_WAIT" /\ wait_list = <<>>) =>
                    /\ (SentError(last.client, "Fila vazia") # {})'
                    /\ wait_list' = <<>>
                    /\ client_connections' = client_connections
                    /\ socket'[c] = socket[c]
                    /\ token'[c] = token[c]
                    /\ last'.exc = "none"
              /\ last'.message.message_type = "LIST_PATIENTS_IN_WAIT" =>
                    /\ \E i \in DOMAIN log' :
                           /\ log'[i].ev = "send"
                           /\ log'[i].client = c
                           /\ log'[i].msg.data = PatientList(wait_list)
                    /\ wait_list' = wait_list
                    /\ last'.exc = "none"]_vars

\* a registered, authenticated client asked for the next patient of an empty
\* list and was sent "Fila vazia"
C25_Witness ==
    /\ manager = "wait_list"
    /\ Processed("NEXT_PATIENT_IN_WAIT")
    /\ last.authenticated
    /\ last.registered
    /\ wait_list = <<>>
    /\ SentError(last.client, "Fila vazia") # {}
    /\ last.client \in Range(client_connections)

\* the schema that the handler of a message type requires of the data
RequiredSchema ==
    IF manager = "wait_list"
    THEN [CONNECTION |-> "ConnectionSchema",
          NEW_PATIENT_IN_WAIT |-> "NewPatientInWaitSchema",
          UPDATE_PATIENT_IN_WAIT |-> "UpdatePatientInWaitSchema"]
    ELSE [CONNECTION |-> "ConnectionSchema",
          GET_FULL_MONTH_CALENDAR |-> "GetFullMonthCalendarSchema",
          GET_FULL_WEEK_CALENDAR |-> "GetFullWeekCalendarSchema",
          GET_DAY_CALENDAR |-> "GetDayCalendarSchema",
          ADD_EVENT |-> "AddEventSchema",
          EDIT_EVENT |-> "EditEventSchema",
          REMOVE_EVENT |-> "RemoveEventSchema"]

\* the message types that are no requests
NotRequests == {"CREATE_UUID", "INVALID", "ERROR", "DISCONNECT"}

\* message m has data of another schema than its type requires, or is no request
IllFormed(m) ==
    \/ m.message_type \in NotRequests
    \/ /\ m.message_type \in DOMAIN RequiredSchema
       /\ m.data.schema # RequiredSchema[m.message_type]

\* C26: a message of an authenticated client whose data is not of the schema
\* its type requires, or whose type is no request type, is answered with
\* INVALID and changes nothing: the wait list, the events, client_connections
\* and the clients' tokens stay as they are and only the sender is sent anything.
C26_IllFormedChangesNothing ==
    [][(last'.op = "process" /\ last'.authenticated /\ IllFormed(last'.message)) =>
          /\ (SentTo(last.client, "INVALID") # {})'
          /\ \A i \in DOMAIN log' :
                 log'[i].ev = "send" =>
                    log'[i].client = last'.client /\ log'[i].msg.message_type = "INVALID"
          /\ wait_list' = wait_list
          /\ events' = events
          /\ client_connections' = client_connections
          /\ token' = token
          /\ user_id' = user_id
          /\ clinic_id' = clinic_id
          /\ last'.exc = "none"]_vars

\* a registered, authenticated client of the wait list sent DISCONNECT while
\* patients were waiting, and was answered with INVALID
C26_Witness ==
    /\ manager = "wait_list"
    /\ Processed("DISCONNECT")
    /\ last.authenticated
    /\ last.registered
    /\ wait_list # <<>>
    /\ SentTo(last.client, "INVALID") # {}

\* C27: in the scheduler manager a CONNECTION whose uuid is not the uuid of
\* the connection that receives it is answered with INVALID before the token is
\* looked at: the client's token, user_id and clinic_id stay as they are and
\* the connection is not dropped.
C27_ForeignUuidIsInvalid ==
    [][(/\ manager = "scheduler"
        /\ last'.op = "process"
        /\ last'.message.message_type = "CONNECTION"
        /\ last'.message.data.schema = "ConnectionSchema"
        /\ last'.message.data.uuid # uuid[last'.client])
       => LET c == last'.client
          IN  /\ \A i \in DOMAIN log' :
                     log'[i].ev = "send" =>
                        log'[i].client = c /\ log'[i].msg.message_type = "INVALID"
              /\ (SentTo(last.client, "INVALID") # {})'
              /\ token' = token
              /\ user_id' = user_id
              /\ clinic_id' = clinic_id
              /\ client_connections' = client_connections
              /\ socket' = socket
              /\ last'.exc = "none"]_vars

\* a connection without token sent a CONNECTION with an accepted token and the
\* uuid of the other connection, and was answered with INVALID
C27_Witness ==
    /\ manager = "scheduler"
    /\ Processed("CONNECTION")
    /\ ~last.authenticated
    /\ last.message.data.token \in AcceptedTokens
    /\ \E d \in Clients \ {last.client} :
          uuid[d] # 0 /\ last.message.data.uuid = uuid[d]
    /\ SentTo(last.client, "INVALID") # {}
    /\ token[last.client] = None
    /\ last.client \in Range(client_connections)

\* C28: after a scheduler CONNECTION is acknowledged, the clinic_id of the
\* connection is a clinic that exists and the clinic of the user of the token;
\* a CONNECTION that names a clinic the user does not belong to, or a clinic
\* that does not exist, is answered with the ERROR message "Clinica nao valida"
\* and the connection is dropped.
C28_ConnectionIsForTheUsersClinic ==
    [][(/\ manager = "scheduler"
        /\ last'.op = "process"
        /\ last'.env = EnvOk
        /\ last'.message.message_type = "CONNECTION"
        /\ last'.message.data.schema = "ConnectionSchema"
        /\ last'.message.data.uuid = uuid[last'.client])
       => LET c == last'.client
              k == last'.message.data.clinic_id
              user == UserOfToken(last'.message.data.token)
          IN  /\ (SentTo(last.client, "CONNECTION") # {})' =>
                    /\ clinic_id'[c] \in ExistingClinics
                    /\ clinic_id'[c] = ClinicOfUser(UserOfToken(token'[c]))
              /\ (/\ last'.authenticated
                  /\ last'.message.data.token \in AcceptedTokens
                  /\ k \notin ExistingClinics \/ k # ClinicOfUser(user)) =>
                    /\ (SentError(last.client, "Clinica nao valida") # {})'
                    /\ c \notin Range(client_connections')]_vars

C30_EditAppliesWhatIsSupplied ==
    [][(/\ manager = "scheduler"
        /\ last'.op = "process"
        /\ last'.authenticated
        /\ last'.env = EnvOk
        /\ last'.message.message_type = "EDIT_EVENT"
        /\ last'.message.data.schema = "EditEventSchema"
        /\ RowOf(events.rows, last'.message.data.event_id) # 0)
       => LET d == last'.message.data
              i == RowOf(events.rows, d.event_id)
              was == events.rows[i]
              stored == events'.rows[i]
          IN  /\ Len(events'.rows) = Len(events.rows)
              /\ \A j \in DOMAIN events.rows : j # i => events'.rows[j] = events.rows[j]
              /\ stored.id = was.id /\ stored.clinic_id = was.clinic_id /\ stored.user = was.user
              /\ stored.date = (IF d.date # 0 THEN d.date ELSE was.date)
              /\ stored.description =
                    (IF d.description # None THEN d.description ELSE was.description)
              /\ stored.is_return = (IF d.is_return # None THEN d.is_return ELSE was.is_return)
              /\ stored.is_off = (IF d.is_off # None THEN d.is_off ELSE was.is_off)
              /\ \A j \in DOMAIN log' :
                     (log'[j].ev = "send" /\ log'[j].msg.message_type = "EDIT_EVENT") =>
                        log'[j].msg.data = EventSchema(stored)
              /\ last'.registered => (SentTo(last.client, "EDIT_EVENT") # {})']_vars

====
